---- MODULE Spec2Model ----
(***************************************************************************)
(* toggl_sheet_sync.py: the reconciliation of a time-tracking ledger       *)
(* against one sheet per month plus two summary sheets.                    *)
(*                                                                         *)
(* Text is modelled as a sequence of one-character strings, so that the    *)
(* formatting, the marker prefix and the parsing of ids are computed and   *)
(* not assumed.  A Python value is a record [t, i, s]: t is "int", "str"   *)
(* or "none".  Points in time are whole seconds counted from 00:00 on      *)
(* 1 January of the target year; a record's start and stop are UTC, the    *)
(* query window and everything formatted are local time.                   *)
(***************************************************************************)
EXTENDS Integers, Sequences, FiniteSets, TLC

VARIABLES
    year,            \* sync_sheets argument
    today,           \* datetime.today() at line 101: [year, month]
    client,          \* association filter: 0 (None) or a client id
    source,          \* the records held by the time-tracking service
    header,          \* worksheet name -> row 1 as row_values(1) returns it
    header_cells,    \* the columns of the cells the last call of setup_header sent (line 94)
    sheet,           \* month -> data rows of the month's worksheet (the store)
    summary,         \* "weekly" / "monthly" -> data rows of the summary sheet
    pc,              \* position in sync_sheets
    run,             \* number of the current run of sync_sheets
    month,           \* loop variable of line 109
    start_search,    \* get_entries locals
    end_search,
    month_entries,   \* records yielded so far / list(get_entries(...))
    toggl_id_map,    \* id -> [row, sheet_row]
    append_row,
    full_range,      \* the in-memory cell objects of the month sheet: row -> values
    update_cells,    \* staged cell objects, as <<row, col>> references
    added, updated, unchanged,
    entry_ix,        \* position of the loop of line 144 in month_entries
    summary_weeks,   \* week start (day number) -> seconds
    summary_months,  \* month -> seconds
    failure,         \* "" or the exception that ended the run
    queries,         \* history: the page queries of the current fetch
    staged,          \* history: cells staged in the current period
    sent,            \* history: batches sent to the month sheet in the current period
    processed,       \* history: <<month, record>> of every record that entered the loop body
    report,          \* history: <<run, month>> -> counters of the completed periods
    edited           \* history: the record source changed since run 1

vars == <<year, today, client, source, header, header_cells, sheet, summary, pc, run, month,
          start_search, end_search, month_entries, toggl_id_map, append_row,
          full_range, update_cells, added, updated, unchanged, entry_ix,
          summary_weeks, summary_months, failure, queries, staged, sent,
          processed, report, edited>>

\* a plausible slip: range(1, today.month) leaves the current month out
lastMonthExclusive == IF today.year = year THEN today.month - 1 ELSE 12

\* the last month of range(1, today.month+1 if today.year == year else 13) (line 102)
lastMonth == IF today.year = year THEN today.month ELSE 12

(***************************************************************************)
(* Bounds of the model.                                                    *)
(***************************************************************************)
\* page-size ceiling of the service: 1000 in the code, scaled down
PageCap == 2
\* flush threshold on the staged cells: 250 in the code, scaled down
FlushThreshold == 10
\* largest record source of the reconciliation scenarios
MaxRecs == 3
\* runs of sync_sheets in a row
MaxRuns == 2
\* latest second used by the sources of the pagination scenarios
MaxT == 2
\* largest record source of the pagination scenarios
MaxFetchRecs == 3
\* weeks that can hold a bucket in the summary scenarios
MaxBuckets == 3

(***************************************************************************)
(* Python values and text.                                                 *)
(***************************************************************************)
PyNone == [t |-> "none", i |-> 0, s |-> <<>>]
PyInt(n) == [t |-> "int", i |-> n, s |-> <<>>]
PyStr(str) == [t |-> "str", i |-> 0, s |-> str]

\* truth value of a Python value (None, 0 and '' are false)
Truthy(v) ==
    CASE v.t = "none" -> FALSE
      [] v.t = "int" -> v.i # 0
      [] OTHER -> v.s # <<>>

DigitChars == <<"0", "1", "2", "3", "4", "5", "6", "7", "8", "9">>

\* '%d' % n for n >= 0
RECURSIVE IntToStr(_)
IntToStr(n) ==
    IF n < 10 THEN <<DigitChars[n + 1]>>
    ELSE IntToStr(n \div 10) \o <<DigitChars[(n % 10) + 1]>>

\* '%02d' % n for n >= 0
Pad2(n) == IF n < 10 THEN <<"0">> \o IntToStr(n) ELSE IntToStr(n)

IsDigit(c) == \E k \in 1..10 : DigitChars[k] = c
DigitVal(c) == (CHOOSE k \in 1..10 : DigitChars[k] = c) - 1

\* int(text) is defined (a non-empty run of digits)
IsIntText(str) == str # <<>> /\ \A k \in 1..Len(str) : IsDigit(str[k])

\* int(text)
RECURSIVE StrToInt(_)
StrToInt(str) ==
    IF Len(str) = 0 THEN 0
    ELSE 10 * StrToInt(SubSeq(str, 1, Len(str) - 1)) + DigitVal(str[Len(str)])

\* text.lstrip('0')
RECURSIVE LStripZero(_)
LStripZero(str) ==
    IF str # <<>> /\ Head(str) = "0" THEN LStripZero(Tail(str)) ELSE str

(***************************************************************************)
(* Calendar (datetime, date, timedelta).                                   *)
(***************************************************************************)
SecondsPerDay == 24 * 3600

\* offset of toggl.DateAndTime().tz from UTC; a zone without daylight saving
TzOffset == 2 * 3600

IsLeap(y) == (y % 4 = 0 /\ y % 100 # 0) \/ y % 400 = 0

DaysInMonth(y, m) ==
    IF m = 2 THEN (IF IsLeap(y) THEN 29 ELSE 28)
    ELSE IF m \in {4, 6, 9, 11} THEN 30 ELSE 31

\* days of year y before the first of month m (m in 1..13)
RECURSIVE DaysBefore(_, _)
DaysBefore(y, m) == IF m = 1 THEN 0 ELSE DaysBefore(y, m - 1) + DaysInMonth(y, m - 1)

\* date(y, 1, 1).toordinal()
YearOrdinal(y) == 365 * (y - 1) + ((y - 1) \div 4) - ((y - 1) \div 100) + ((y - 1) \div 400) + 1

\* A day number counts days from 1 January of the target year (0 = 1 January).
DayOf(t) == t \div SecondsPerDay
SecOfDay(t) == t % SecondsPerDay

\* date.weekday() of day number d of year y: Monday is 0
Weekday(y, d) == (YearOrdinal(y) + d + 6) % 7

\* the calendar date [y, m, d] of day number dn of year y (the year before,
\* the year itself or the year after)
YMD(y, dn) ==
    LET yy == IF dn < 0 THEN y - 1
              ELSE IF dn >= DaysBefore(y, 13) THEN y + 1 ELSE y
        n  == IF dn < 0 THEN dn + DaysBefore(y - 1, 13)
              ELSE IF dn >= DaysBefore(y, 13) THEN dn - DaysBefore(y, 13) ELSE dn
        mm == CHOOSE m \in 1..12 : DaysBefore(yy, m) <= n /\ n < DaysBefore(yy, m + 1)
    IN  [y |-> yy, m |-> mm, d |-> n - DaysBefore(yy, mm) + 1]

\* strftime('%Y-%m-%d') of a day number
DateText(y, dn) ==
    LET c == YMD(y, dn)
    IN  IntToStr(c.y) \o <<"-">> \o Pad2(c.m) \o <<"-">> \o Pad2(c.d)

\* localtz.fromutc(...): a UTC point in time as local time
FromUtc(t) == t + TzOffset

(***************************************************************************)
(* The time-tracking service (toggl), an external collaborator.            *)
(* A raw record is [id, start, stop, duration, pid, description]; start    *)
(* and stop are UTC, pid 0 stands for a record without project.            *)
(***************************************************************************)
\* toggl.ProjectList(): the projects and the client (cid) each belongs to
Projects ==
    { [id |-> 5, name |-> <<"p">>, cid |-> 1],
      [id |-> 6, name |-> <<"q">>, cid |-> 2] }

\* ProjectList().find_by_id(pid): the set holding the project, or the empty set (None)
FindById(pid) == {p \in Projects : p.id = pid}

\* toggl_entry.get('end'): the end of the entry on the time scale of the query window
EntryEnd(e) == FromUtc(e.stop)

\* a set of records as a sequence in ascending order of start, then id
RECURSIVE SortByStart(_)
SortByStart(S) ==
    IF S = {} THEN <<>>
    ELSE LET first == CHOOSE r \in S : \A q \in S :
                          r.start < q.start \/ (r.start = q.start /\ r.id <= q.id)
         IN  <<first>> \o SortByStart(S \ {first})

\* toggl.TimeEntryList(start_search, end_search).time_entries: the records that
\* start inside the window, earliest first, cut at the page-size ceiling
TimeEntryList(src, from, to) ==
    LET inWindow == SortByStart({r \in src : from <= FromUtc(r.start) /\ FromUtc(r.start) <= to})
    IN  IF Len(inWindow) > PageCap THEN SubSeq(inWindow, 1, PageCap) ELSE inWindow

\* valid_project_ids of line 29
ValidProjectIds(c) == {p.id : p \in {q \in Projects : q.cid = c}}

\* a plausible slip: the test of line 37 takes every record that has a project
YieldedWithProject(page, c) ==
    SelectSeq(page, LAMBDA e : c = 0 \/ e.pid # 0)

\* the records of a page that get_entries yields (line 37)
Yielded(page, c) ==
    SelectSeq(page, LAMBDA e : c = 0 \/ e.pid \in ValidProjectIds(c))

\* max_date after the loop of lines 33-38 over a non-empty page
MaxDate(page) ==
    CHOOSE t \in {EntryEnd(page[k]) : k \in 1..Len(page)} :
        \A k \in 1..Len(page) : EntryEnd(page[k]) <= t

\* a plausible slip: the next page starts at the high-water mark itself
NextStartSearchAtMark(page) == MaxDate(page)

\* start_search for the next page (line 42)
NextStartSearch(page) == MaxDate(page) + 1

(***************************************************************************)
(* Row Mapper.                                                             *)
(***************************************************************************)
SHEET_HEADERS == <<"Date", "toggl_id", "Start", "End", "Project", "Description", "Duration">>
SUMMARY_HEADERS == <<"Period", "Days Worked", "Total Hours">>
NumCols == Len(SHEET_HEADERS)

\* format_time(t) for a local point in time
format_time(t) ==
    LET h == SecOfDay(t) \div 3600
        m == (SecOfDay(t) % 3600) \div 60
        s == LStripZero(Pad2(h) \o <<":">> \o Pad2(m))
    IN  IF s # <<>> /\ Head(s) = ":" THEN <<"0">> \o s ELSE s

\* '%d:%02d' % divmod(duration // 60, 60)
DurationText(duration) ==
    IntToStr((duration \div 60) \div 60) \o <<":">> \o Pad2((duration \div 60) % 60)

\* duration computed at lines 62-63
ComputedDuration(entry) == FromUtc(entry.stop) - FromUtc(entry.start)

\* a plausible slip: the computed duration is used without the check
DurationUnchecked(entry) == FALSE

\* entry_to_sheet_row raises ValueError (line 64)
DurationMismatch(entry) == ComputedDuration(entry) # entry.duration

\* the dictionary entry_to_sheet_row returns (lines 67-75)
entry_to_sheet_row(y, entry) ==
    LET start_time == FromUtc(entry.start)
        end_time == FromUtc(entry.stop)
        project == IF entry.pid # 0 THEN FindById(entry.pid) ELSE {}
    IN  [h \in {SHEET_HEADERS[n] : n \in 1..NumCols} |->
            CASE h = "Date" -> PyStr(DateText(y, DayOf(start_time)))
              [] h = "toggl_id" -> PyInt(entry.id)
              [] h = "Start" -> PyStr(format_time(start_time))
              [] h = "End" -> PyStr(format_time(end_time))
              [] h = "Project" ->
                    IF project # {}
                    THEN PyStr(<<"'">> \o (CHOOSE p \in project : TRUE).name)
                    ELSE PyNone
              [] h = "Description" -> PyStr(<<"'">> \o entry.description)
              [] OTHER -> PyStr(DurationText(ComputedDuration(entry)))]

\* a plausible slip: weeks that start on Sunday
start_of_week_sunday(y, t) == DayOf(t) - ((Weekday(y, DayOf(t)) + 1) % 7)

\* start_of_week(d), as a day number
start_of_week(y, t) == DayOf(t) - Weekday(y, DayOf(t))

(***************************************************************************)
(* The spreadsheet (gspread), an external collaborator.  A cell holds      *)
(* text; the empty cell holds ''.                                          *)
(***************************************************************************)
\* what a cell reads back as after a Python value was written to it: None
\* empties the cell, a number is shown in decimal, and a leading ' marks
\* the rest as text and is not part of the cell's value
CellText(v) ==
    CASE v.t = "none" -> <<>>
      [] v.t = "int" -> IntToStr(v.i)
      [] OTHER -> IF v.s # <<>> /\ Head(v.s) = "'" THEN Tail(v.s) ELSE v.s

\* header_row[n] if len(header_row) > n else None (line 85); '' stands for None
HValue(header_row, n) == IF Len(header_row) >= n THEN header_row[n] ELSE ""

\* a plausible slip: the test of line 90 without "h_value and"
HeaderMismatchOnEmpty(header_row, headers) ==
    \E n \in 1..Len(headers) : HValue(header_row, n) # headers[n]

\* setup_header raises ValueError (line 90)
HeaderMismatch(header_row, headers) ==
    \E n \in 1..Len(headers) :
        HValue(header_row, n) # "" /\ HValue(header_row, n) # headers[n]

\* a plausible slip: each empty cell is written when the loop meets it, so
\* the cells before the mismatch are filled in
HeaderFilledBeforeRaise(header_row, headers) ==
    LET bad == CHOOSE n \in 1..Len(headers) :
                  /\ HValue(header_row, n) # "" /\ HValue(header_row, n) # headers[n]
                  /\ \A k \in 1..(n - 1) :
                        HValue(header_row, k) = "" \/ HValue(header_row, k) = headers[k]
    IN  [n \in 1..Len(header_row) |->
            IF n < bad /\ header_row[n] = "" THEN headers[n] ELSE header_row[n]]

\* row 1 after setup_header raised at line 91: the cells collected so far
\* are dropped, update_cells of line 94 is not reached
HeaderOnRaise(header_row, headers) == header_row

\* the positions of header_cells (lines 86-89)
HeaderCells(header_row, headers) ==
    {n \in 1..Len(headers) : HValue(header_row, n) = ""}

\* row 1 after setup_header returned
HeaderAfter(header_row, headers) ==
    LET len == IF Len(header_row) > Len(headers) THEN Len(header_row) ELSE Len(headers)
    IN  [n \in 1..len |->
            IF n \in HeaderCells(header_row, headers) THEN headers[n] ELSE header_row[n]]

(***************************************************************************)
(* Worksheets.                                                             *)
(***************************************************************************)
\* start_date.strftime("%b"): the names of the month sheets
MonthNames == <<"Jan", "Feb", "Mar", "Apr", "May", "Jun",
                "Jul", "Aug", "Sep", "Oct", "Nov", "Dec">>

\* row_count of a month sheet: 1000 in the code (line 44), here the rows the
\* scenarios can fill (two rows before the first run, one row per record)
\* and one more
RowCount == 4 + MaxRecs

\* row_count of a summary sheet
SummaryRowCount == 3 + (IF MaxBuckets > MaxRecs THEN MaxBuckets ELSE MaxRecs)

EmptyRow == [c \in 1..NumCols |-> <<>>]
EmptySheet == [r \in 2..RowCount |-> EmptyRow]
EmptySummary == [r \in 2..SummaryRowCount |-> [c \in 1..Len(SUMMARY_HEADERS) |-> <<>>]]

\* spreadsheet.worksheet(name) succeeds
Exists(name) == name \in DOMAIN header

\* row 1 of the worksheet get_or_add_worksheet returns (lines 44-48)
HeaderRowOf(name) == IF Exists(name) THEN header[name] ELSE <<>>

\* start_date of line 110
StartDate(y, m) == DaysBefore(y, m) * SecondsPerDay

\* end_date of line 111: (start_date + 32 days).replace(day=1)
EndDate(y, m) ==
    LET later == DayOf(StartDate(y, m)) + 32
    IN  (later - (YMD(y, later).d - 1)) * SecondsPerDay

\* the column of a header of SHEET_HEADERS
ColOf(h) == CHOOSE n \in 1..NumCols : SHEET_HEADERS[n] = h

Max(S) == CHOOSE x \in S : \A z \in S : z <= x

(***************************************************************************)
(* sync_sheets, lines 100-106: the summary sheets.                         *)
(***************************************************************************)
\* a plausible slip: the error is caught and logged, and the run goes on
\* to the summaries
FailLogged(why) == /\ pc' = "summary"
                   /\ failure' = why

\* an exception leaves sync_sheets and main: the run is over
Fail(why) == /\ pc' = "failed"
             /\ failure' = why

\* lines 101-104: weekly_summary and its header
SetupWeeklyHeader ==
    /\ pc = "start"
    /\ LET row == HeaderRowOf("Weekly Summary")
       IN  IF HeaderMismatch(row, SUMMARY_HEADERS)
           THEN /\ Fail("ValueError: header")
                /\ header' = ("Weekly Summary" :> HeaderOnRaise(row, SUMMARY_HEADERS)) @@ header
                /\ header_cells' = {}
           ELSE /\ pc' = "monthly_header"
                /\ failure' = failure
                /\ header' = ("Weekly Summary" :> HeaderAfter(row, SUMMARY_HEADERS)) @@ header
                /\ header_cells' = HeaderCells(row, SUMMARY_HEADERS)
    /\ UNCHANGED <<year, today, client, source, sheet, summary, run, month,
                   start_search, end_search, month_entries, toggl_id_map, append_row,
                   full_range, update_cells, added, updated, unchanged, entry_ix,
                   summary_weeks, summary_months, queries, staged, sent,
                   processed, report, edited>>

\* lines 105-108: monthly_summary, its header, and the empty aggregates
SetupMonthlyHeader ==
    /\ pc = "monthly_header"
    /\ LET row == HeaderRowOf("Monthly Summary")
       IN  IF HeaderMismatch(row, SUMMARY_HEADERS)
           THEN /\ Fail("ValueError: header")
                /\ header' = ("Monthly Summary" :> HeaderOnRaise(row, SUMMARY_HEADERS)) @@ header
                /\ header_cells' = {}
                /\ UNCHANGED <<month, summary_weeks, summary_months>>
           ELSE /\ pc' = "month_header"
                /\ failure' = failure
                /\ header' = ("Monthly Summary" :> HeaderAfter(row, SUMMARY_HEADERS)) @@ header
                /\ header_cells' = HeaderCells(row, SUMMARY_HEADERS)
                /\ month' = lastMonth
                /\ summary_weeks' = <<>>
                /\ summary_months' = <<>>
    /\ UNCHANGED <<year, today, client, source, sheet, summary, run,
                   start_search, end_search, month_entries, toggl_id_map, append_row,
                   full_range, update_cells, added, updated, unchanged, entry_ix,
                   queries, staged, sent, processed, report, edited>>

(***************************************************************************)
(* sync_sheets, lines 109-118: the start of a period.                      *)
(***************************************************************************)
SetupMonthSheet ==
    /\ pc = "month_header"
    /\ LET name == MonthNames[month]
           row == HeaderRowOf(name)
       IN  /\ sheet' = IF month \in DOMAIN sheet THEN sheet
                       ELSE sheet @@ (month :> EmptySheet)
           /\ IF HeaderMismatch(row, SHEET_HEADERS)
              THEN /\ Fail("ValueError: header")
                   /\ header' = (name :> HeaderOnRaise(row, SHEET_HEADERS)) @@ header
                   /\ header_cells' = {}
                   /\ UNCHANGED <<start_search, end_search, month_entries, toggl_id_map,
                                  append_row, update_cells, added, updated, unchanged,
                                  queries, staged, sent>>
              ELSE /\ pc' = "fetch"
                   /\ failure' = failure
                   /\ header' = (name :> HeaderAfter(row, SHEET_HEADERS)) @@ header
                   /\ header_cells' = HeaderCells(row, SHEET_HEADERS)
                   /\ toggl_id_map' = <<>>
                   /\ append_row' = 2
                   /\ update_cells' = <<>>
                   /\ added' = 0
                   /\ updated' = 0
                   /\ unchanged' = 0
                   /\ start_search' = StartDate(year, month)
                   /\ end_search' = EndDate(year, month)
                   /\ month_entries' = <<>>
                   /\ queries' = <<>>
                   /\ staged' = <<>>
                   /\ sent' = <<>>
    /\ UNCHANGED <<year, today, client, source, summary, run, month,
                   full_range, entry_ix, summary_weeks, summary_months,
                   processed, report, edited>>

(***************************************************************************)
(* get_entries, lines 30-42: one page per step.                            *)
(***************************************************************************)
\* a plausible slip: a page of exactly the ceiling ends the fetch
LastPageAtCeiling(page) == Len(page) <= PageCap

\* finished = True (lines 39-40)
LastPage(page) == Len(page) < PageCap

\* get_entries(start_date, end_date, client) run to its end on the records
\* src: the page queries it issues and the records it yields, in order
RECURSIVE get_entries(_, _, _, _)
get_entries(src, from, to, c) ==
    LET page == TimeEntryList(src, from, to)
        rest == IF LastPage(page) THEN [queries |-> <<>>, yielded |-> <<>>]
                ELSE get_entries(src, NextStartSearch(page), to, c)
    IN  [queries |-> <<<<from, to>>>> \o rest.queries,
         yielded |-> Yielded(page, c) \o rest.yielded]

FetchPage ==
    /\ pc = "fetch"
    /\ LET page == TimeEntryList(source, start_search, end_search)
       IN  /\ queries' = Append(queries, <<start_search, end_search>>)
           /\ month_entries' = month_entries \o Yielded(page, client)
           /\ IF LastPage(page)
              THEN /\ pc' = "load"
                   /\ start_search' = start_search
              ELSE /\ pc' = "fetch"
                   /\ start_search' = NextStartSearch(page)
    /\ UNCHANGED <<year, today, client, source, header, header_cells, sheet, summary, run, month,
                   end_search, toggl_id_map, append_row, full_range, update_cells,
                   added, updated, unchanged, entry_ix, summary_weeks, summary_months,
                   failure, staged, sent, processed, report, edited>>

(***************************************************************************)
(* sync_sheets, lines 120-142: the Destination Index.                      *)
(***************************************************************************)
\* a plausible slip: the loop of line 136 starts below the first data row
IdRowsFromThird(rows) == {r \in 3..RowCount : rows[r][ColOf("toggl_id")] # <<>>}

\* the rows of line 139: the id cell is not empty
IdRows(rows) == {r \in 2..RowCount : rows[r][ColOf("toggl_id")] # <<>>}

\* sheet_row of line 138
SheetRow(rows, r) ==
    [h \in {SHEET_HEADERS[n] : n \in 1..NumCols} |-> PyStr(rows[r][ColOf(h)])]

\* toggl_id_map after the loop of lines 136-142: a later row replaces an
\* earlier one with the same id
LoadedIndex(rows) ==
    LET ids == {StrToInt(rows[r][ColOf("toggl_id")]) : r \in IdRows(rows)}
    IN  [id \in ids |->
            LET r == Max({q \in IdRows(rows) : StrToInt(rows[q][ColOf("toggl_id")]) = id})
            IN  [row |-> r, sheet_row |-> SheetRow(rows, r)]]

\* a plausible slip: the append position taken from the number of id rows
AppendRowByCount(rows) == 2 + Cardinality(IdRows(rows))

\* append_row after the loop of lines 136-142
LoadedAppendRow(rows) == IF IdRows(rows) = {} THEN 2 ELSE Max(IdRows(rows)) + 1

LoadIndex ==
    /\ pc = "load"
    /\ LET rows == sheet[month]
       IN  /\ full_range' = [r \in 2..RowCount |-> [c \in 1..NumCols |-> PyStr(rows[r][c])]]
           /\ IF \E r \in IdRows(rows) : ~IsIntText(rows[r][ColOf("toggl_id")])
              THEN /\ Fail("ValueError: int")
                   /\ UNCHANGED <<toggl_id_map, append_row, entry_ix>>
              ELSE /\ pc' = "sync"
                   /\ failure' = failure
                   /\ toggl_id_map' = LoadedIndex(rows)
                   /\ append_row' = LoadedAppendRow(rows)
                   /\ entry_ix' = 1
    /\ UNCHANGED <<year, today, client, source, header, header_cells, sheet, summary, run, month,
                   start_search, end_search, month_entries, update_cells,
                   added, updated, unchanged, summary_weeks, summary_months,
                   queries, staged, sent, processed, report, edited>>

(***************************************************************************)
(* sync_sheets, lines 144-187: one record.                                 *)
(***************************************************************************)
\* dict.setdefault(key, 0) followed by += amount (lines 148-151)
Accumulate(buckets, key, amount) ==
    IF key \in DOMAIN buckets
    THEN [buckets EXCEPT ![key] = @ + amount]
    ELSE buckets @@ (key :> amount)

\* cell_value as compared at line 164 (lines 159-163)
Comparable(h, cell_value) ==
    IF h = "toggl_id" THEN PyInt(StrToInt(cell_value.s))
    ELSE IF h \in {"Project", "Description"} /\ Truthy(cell_value)
         THEN PyStr(<<"'">> \o cell_value.s)
         ELSE cell_value

\* a plausible slip: a row with a difference is staged as a whole
ChangedColsWholeRow(sheet_row, sheet_values) ==
    IF \E n \in 1..NumCols :
          Comparable(SHEET_HEADERS[n], sheet_row[SHEET_HEADERS[n]]) # sheet_values[SHEET_HEADERS[n]]
    THEN 1..NumCols ELSE {}

\* the columns whose cell is staged for a record found in the index (line 164)
ChangedCols(sheet_row, sheet_values) ==
    {n \in 1..NumCols :
        Comparable(SHEET_HEADERS[n], sheet_row[SHEET_HEADERS[n]]) # sheet_values[SHEET_HEADERS[n]]}

\* a set of columns as the ascending sequence of cell references of a row
RECURSIVE RowRefs(_, _)
RowRefs(row, cols) ==
    IF cols = {} THEN <<>>
    ELSE LET n == CHOOSE c \in cols : \A d \in cols : c <= d
         IN  <<<<row, n>>>> \o RowRefs(row, cols \ {n})

\* month_sheet.update_cells(cells): the rows of the sheet after the batch
Written(rows, cells, range) ==
    [r \in 2..RowCount |-> [c \in 1..NumCols |->
        IF \E k \in 1..Len(cells) : cells[k] = <<r, c>>
        THEN CellText(range[r][c]) ELSE rows[r][c]]]

\* a batch as it is sent: the cells with their values
Batch(cells, range) ==
    [k \in 1..Len(cells) |->
        [row |-> cells[k][1], col |-> cells[k][2], value |-> range[cells[k][1]][cells[k][2]]]]

\* month_sheet.update_cells(cells) returns, or raises the error of a request
\* the spreadsheet service did not accept; a rejected batch writes nothing
UpdateCellsOutcomes == {"ok", "APIError"}

\* a plausible slip: the threshold allows for the cells of one more row
OverThresholdAndRow(cells) == Len(cells) > FlushThreshold + NumCols

\* the batch is sent inside the loop (line 184)
OverThreshold(cells) == Len(cells) > FlushThreshold

ProcessEntry ==
    /\ pc = "sync"
    /\ entry_ix <= Len(month_entries)
    /\ LET time_entry == month_entries[entry_ix]
           week == start_of_week(year, FromUtc(time_entry.start))
           sheet_values == entry_to_sheet_row(year, time_entry)
           found == time_entry.id \in DOMAIN toggl_id_map
           row == IF found THEN toggl_id_map[time_entry.id].row ELSE append_row
           cols == IF found
                   THEN ChangedCols(toggl_id_map[time_entry.id].sheet_row, sheet_values)
                   ELSE 1..NumCols
           range == [full_range EXCEPT ![row] =
                        [c \in 1..NumCols |-> IF c \in cols THEN sheet_values[SHEET_HEADERS[c]]
                                              ELSE @[c]]]
           cells == update_cells \o RowRefs(row, cols)
       IN  /\ summary_weeks' = Accumulate(summary_weeks, week, time_entry.duration)
           /\ summary_months' = Accumulate(summary_months, month, time_entry.duration)
           /\ processed' = Append(processed, <<month, time_entry>>)
           /\ IF DurationMismatch(time_entry)
              THEN /\ Fail("ValueError: duration")
                   /\ UNCHANGED <<sheet, append_row, full_range, update_cells,
                                  added, updated, unchanged, entry_ix, staged, sent>>
              ELSE /\ full_range' = range
                   /\ staged' = staged \o RowRefs(row, cols)
                   /\ added' = IF found THEN added ELSE added + 1
                   /\ updated' = IF found /\ cols # {} THEN updated + 1 ELSE updated
                   /\ unchanged' = IF found /\ cols = {} THEN unchanged + 1 ELSE unchanged
                   /\ append_row' = IF found THEN append_row ELSE append_row + 1
                   /\ IF OverThreshold(cells)
                      THEN \E outcome \in UpdateCellsOutcomes :
                              IF outcome = "ok"
                              THEN /\ sheet' = [sheet EXCEPT ![month] = Written(@, cells, range)]
                                   /\ sent' = Append(sent, Batch(cells, range))
                                   /\ update_cells' = <<>>
                                   /\ entry_ix' = entry_ix + 1
                                   /\ pc' = "sync"
                                   /\ failure' = failure
                              ELSE /\ Fail(outcome)
                                   /\ update_cells' = cells
                                   /\ UNCHANGED <<sheet, sent, entry_ix>>
                      ELSE /\ sheet' = sheet
                           /\ sent' = sent
                           /\ update_cells' = cells
                           /\ entry_ix' = entry_ix + 1
                           /\ pc' = "sync"
                           /\ failure' = failure
    /\ UNCHANGED <<year, today, client, source, header, header_cells, summary, run, month,
                   start_search, end_search, month_entries, toggl_id_map,
                   queries, report, edited>>

(***************************************************************************)
(* sync_sheets, lines 188-190: the end of a period.                        *)
(***************************************************************************)
\* a plausible slip: the test of line 184 repeated after the loop
SendsRestOverThreshold(cells) == Len(cells) > FlushThreshold

\* the rest is sent after the loop (line 188)
SendsRest(cells) == Len(cells) > 0

\* the period is over: its counters are reported and the next month follows
PeriodDone ==
    /\ report' = (<<run, month>> :> [added |-> added, updated |-> updated, unchanged |-> unchanged,
                                    records |-> Len(month_entries),
                                    staged |-> Len(staged)]) @@ report
    /\ failure' = failure
    /\ IF month > 1
       THEN /\ month' = month - 1
            /\ pc' = "month_header"
       ELSE /\ month' = month
            /\ pc' = "summary"

FinishPeriod ==
    /\ pc = "sync"
    /\ entry_ix > Len(month_entries)
    /\ IF SendsRest(update_cells)
       THEN \E outcome \in UpdateCellsOutcomes :
               IF outcome = "ok"
               THEN /\ sheet' = [sheet EXCEPT ![month] = Written(@, update_cells, full_range)]
                    /\ sent' = Append(sent, Batch(update_cells, full_range))
                    /\ PeriodDone
               ELSE /\ Fail(outcome)
                    /\ UNCHANGED <<sheet, sent, report, month>>
       ELSE /\ sheet' = sheet
            /\ sent' = sent
            /\ PeriodDone
    /\ UNCHANGED <<year, today, client, source, header, header_cells, summary, run,
                   start_search, end_search, month_entries, toggl_id_map, append_row,
                   full_range, update_cells, added, updated, unchanged, entry_ix,
                   summary_weeks, summary_months, queries, staged,
                   processed, edited>>

(***************************************************************************)
(* sync_sheets, lines 191-209: the Aggregate Writer.                       *)
(***************************************************************************)
MonthChars ==
    << <<"J", "a", "n">>, <<"F", "e", "b">>, <<"M", "a", "r">>, <<"A", "p", "r">>,
       <<"M", "a", "y">>, <<"J", "u", "n">>, <<"J", "u", "l">>, <<"A", "u", "g">>,
       <<"S", "e", "p">>, <<"O", "c", "t">>, <<"N", "o", "v">>, <<"D", "e", "c">> >>

\* week.strftime("%Y-%m-%d") (line 200)
WeekLabel(y, week) == DateText(y, week)

\* month_start.strftime("%Y-%m (%b)") (line 207)
MonthLabel(y, m) ==
    IntToStr(y) \o <<"-">> \o Pad2(m) \o <<" ", "(">> \o MonthChars[m] \o <<")">>

\* "'%d:%02d" % (minutes // 60, minutes % 60) with minutes = duration // 60
TotalText(duration) ==
    <<"'">> \o IntToStr((duration \div 60) \div 60) \o <<":">> \o Pad2((duration \div 60) % 60)

\* sorted(...) of the keys of a dictionary
RECURSIVE SortedKeys(_)
SortedKeys(S) ==
    IF S = {} THEN <<>>
    ELSE LET k == CHOOSE x \in S : \A z \in S : x <= z
         IN  <<k>> \o SortedKeys(S \ {k})

\* the data rows of a summary sheet after lines 191-202 (203-209): the range
\* of rows 2..len(buckets)+2 is read, the label and the total of each bucket
\* are set, and the whole range is written back
SummaryWritten(rows, buckets, labels) ==
    LET keys == SortedKeys(DOMAIN buckets)
    IN  [r \in 2..SummaryRowCount |-> [c \in 1..Len(SUMMARY_HEADERS) |->
            IF r > Len(keys) + 2 THEN rows[r][c]
            ELSE IF r - 1 <= Len(keys) /\ c = 1 THEN CellText(PyStr(labels[keys[r - 1]]))
            ELSE IF r - 1 <= Len(keys) /\ c = 3
                 THEN CellText(PyStr(TotalText(buckets[keys[r - 1]])))
            ELSE CellText(PyStr(rows[r][c]))]]

WriteSummaries ==
    /\ pc = "summary"
    /\ LET WLabel == [k \in DOMAIN summary_weeks |-> WeekLabel(year, k)]
           MLabel == [k \in DOMAIN summary_months |-> MonthLabel(year, k)]
       IN  summary' = [summary EXCEPT
                !["weekly"] = SummaryWritten(@, summary_weeks, WLabel),
                !["monthly"] = SummaryWritten(@, summary_months, MLabel)]
    /\ pc' = "done"
    /\ UNCHANGED <<year, today, client, source, header, header_cells, sheet, run, month,
                   start_search, end_search, month_entries, toggl_id_map, append_row,
                   full_range, update_cells, added, updated, unchanged, entry_ix,
                   summary_weeks, summary_months, failure, queries, staged, sent,
                   processed, report, edited>>

(***************************************************************************)
(* main, lines 212-226: the program is run again, on the same record       *)
(* source or after a record of the source was edited.                      *)
(***************************************************************************)
\* a record whose stop was moved half an hour later at the service
Lengthened(r) == [r EXCEPT !.stop = @ + 1800, !.duration = @ + 1800]

Rerun ==
    /\ pc = "done"
    /\ run < MaxRuns
    /\ \E src \in {source} \cup {(source \ {r}) \cup {Lengthened(r)} : r \in source} :
          /\ source' = src
          /\ edited' = (edited \/ src # source)
    /\ run' = run + 1
    /\ pc' = "start"
    /\ processed' = <<>>
    /\ UNCHANGED <<year, today, client, header, header_cells, sheet, summary, month, report,
                   start_search, end_search, month_entries, toggl_id_map, append_row,
                   full_range, update_cells, added, updated, unchanged, entry_ix,
                   summary_weeks, summary_months, failure, queries, staged, sent>>

(***************************************************************************)
(* The scenarios.                                                          *)
(***************************************************************************)
\* a record given by its local day of the year (1 = 1 January) and times
Rec(id, day, h1, m1, h2, m2, duration, pid, description) ==
    [id |-> id,
     start |-> ((day - 1) * 24 + h1) * 3600 + m1 * 60 - TzOffset,
     stop |-> ((day - 1) * 24 + h2) * 3600 + m2 * 60 - TzOffset,
     duration |-> duration, pid |-> pid, description |-> description]

RecA == Rec(100, 2, 9, 0, 10, 30, 5400, 5, <<"a">>)
RecB == Rec(101, 2, 13, 0, 13, 0, 0, 0, <<"b">>)
\* empty description
RecC == Rec(102, 3, 10, 0, 10, 30, 1800, 6, <<>>)
\* starts on the day before in UTC
RecD == Rec(103, 1, 0, 30, 1, 30, 3600, 5, <<"d">>)
\* reported duration differs from stop - start
RecE == Rec(104, 4, 8, 0, 8, 2, 60, 5, <<"e">>)
\* starts at the instant the January window ends and the February window starts
RecF == Rec(105, 32, 0, 0, 0, 10, 600, 0, <<"f">>)
RecG == Rec(106, 36, 9, 0, 17, 5, 29100, 6, <<"'", "g">>)

RecordPool == {RecA, RecB, RecC, RecD, RecE, RecF, RecG}

Sources == {S \in SUBSET RecordPool : Cardinality(S) <= MaxRecs}

\* the row a run leaves in the sheet for a record
StoredRow(y, e) == [c \in 1..NumCols |-> CellText(entry_to_sheet_row(y, e)[SHEET_HEADERS[c]])]

\* a row a person typed: a note in the Description column, no id
NoteRow == [EmptyRow EXCEPT ![6] = <<"n">>]

WithRows(r2, r3) == [EmptySheet EXCEPT ![2] = r2, ![3] = r3]

\* the January worksheet before the first run: [exists, header, rows]
InitialJanuary(y) ==
    { [exists |-> FALSE, header |-> <<>>, rows |-> EmptySheet],
      [exists |-> TRUE, header |-> SHEET_HEADERS,
       rows |-> WithRows(StoredRow(y, RecA), EmptyRow)],
      [exists |-> TRUE, header |-> <<"Date", "toggl_id">>,
       rows |-> WithRows(NoteRow, StoredRow(y, Lengthened(RecA)))],
      [exists |-> TRUE, header |-> SHEET_HEADERS,
       rows |-> WithRows(StoredRow(y, RecB), NoteRow)],
      [exists |-> TRUE, header |-> SHEET_HEADERS,
       rows |-> WithRows([EmptyRow EXCEPT ![2] = <<"x">>], EmptyRow)],
      [exists |-> TRUE, header |-> <<"Date", "id">>, rows |-> EmptySheet] }

EmptyRange == [r \in 2..RowCount |-> [c \in 1..NumCols |-> PyStr(<<>>)]]

\* the locals of sync_sheets and get_entries before the first statement
InitLocals ==
    /\ run = 1
    /\ month = lastMonth
    /\ month_entries = <<>>
    /\ toggl_id_map = <<>>
    /\ append_row = 2
    /\ full_range = EmptyRange
    /\ update_cells = <<>>
    /\ added = 0
    /\ updated = 0
    /\ unchanged = 0
    /\ entry_ix = 1
    /\ summary_weeks = <<>>
    /\ summary_months = <<>>
    /\ failure = ""
    /\ header_cells = {}
    /\ queries = <<>>
    /\ staged = <<>>
    /\ sent = <<>>
    /\ processed = <<>>
    /\ report = <<>>
    /\ edited = FALSE

\* The reconciliation scenarios.  Today is in February of the target year
\* or in the year after it; a past year (twelve periods) takes the sources
\* of at most one record.
Init ==
    /\ year \in {2018}
    /\ client \in {0, 1}
    /\ source \in Sources
    /\ today \in IF Cardinality(source) <= 1
                  THEN {[year |-> 2018, month |-> 2], [year |-> 2019, month |-> 5]}
                  ELSE {[year |-> 2018, month |-> 2]}
    /\ \E jan \in InitialJanuary(year) :
          /\ header = IF jan.exists THEN ("Jan" :> jan.header) ELSE <<>>
          /\ sheet = IF jan.exists THEN (1 :> jan.rows) ELSE <<>>
    /\ summary = [k \in {"weekly", "monthly"} |-> EmptySummary]
    /\ pc = "start"
    /\ start_search = 0
    /\ end_search = 0
    /\ InitLocals

Next ==
    \/ SetupWeeklyHeader
    \/ SetupMonthlyHeader
    \/ SetupMonthSheet
    \/ FetchPage
    \/ LoadIndex
    \/ ProcessEntry
    \/ FinishPeriod
    \/ WriteSummaries
    \/ Rerun

Spec == Init /\ [][Next]_vars

(***************************************************************************)
(* The pagination scenarios: get_entries for January on sources whose      *)
(* records start and stop within the first seconds of the month, so that   *)
(* records overlap, follow each other without a gap, or share a start.     *)
(***************************************************************************)
\* a record given by its local start and stop; odd ids belong to project 5;
\* the ids of a source are numbered in the order of the starts
FetchRecord(id, from, to) ==
    [id |-> id, start |-> from - TzOffset, stop |-> to - TzOffset, duration |-> to - from,
     pid |-> IF id % 2 = 1 THEN 5 ELSE 6, description |-> <<>>]

Spans == {sp \in (0..MaxT) \X (0..MaxT) : sp[1] <= sp[2]}

\* the source that holds record k with span f[k], for k in 1..n
FetchSource(n, f) == {FetchRecord(k, f[k][1], f[k][2]) : k \in 1..n}

\* the state at line 119 of the January period of a run whose worksheets
\* exist with their headers
InitFetch ==
    /\ year \in {2018}
    /\ today = [year |-> 2018, month |-> 1]
    /\ client \in {0, 1}
    /\ \E n \in 0..MaxFetchRecs : \E f \in [1..n -> Spans] :
          /\ \A k \in 1..(n - 1) : f[k][1] <= f[k + 1][1]
          /\ source = FetchSource(n, f)
    /\ header = ("Weekly Summary" :> SUMMARY_HEADERS) @@ ("Monthly Summary" :> SUMMARY_HEADERS)
                @@ ("Jan" :> SHEET_HEADERS)
    /\ sheet = (1 :> EmptySheet)
    /\ summary = [k \in {"weekly", "monthly"} |-> EmptySummary]
    /\ pc = "fetch"
    /\ start_search = StartDate(year, 1)
    /\ end_search = EndDate(year, 1)
    /\ InitLocals

NextFetch == FetchPage

SpecFetch == InitFetch /\ [][NextFetch]_vars

(***************************************************************************)
(* The header scenarios: setup_header on every row 1 made of empty cells,  *)
(* expected names and other text.                                          *)
(***************************************************************************)
RECURSIVE RowsOfLen(_, _)
RowsOfLen(headers, n) ==
    IF n = 0 THEN {<<>>}
    ELSE {Append(r, v) : r \in RowsOfLen(headers, n - 1), v \in {"", "X", headers[n]}}

HeaderRows(headers) == UNION {RowsOfLen(headers, n) : n \in 0..Len(headers)}

SummaryHeaderRows == HeaderRows(SUMMARY_HEADERS)
SheetHeaderRows == HeaderRows(SHEET_HEADERS)

InitHeader ==
    /\ year \in {2018}
    /\ today = [year |-> 2018, month |-> 1]
    /\ client = 0
    /\ source = {}
    /\ \/ /\ pc = "start"
          /\ \E w \in SummaryHeaderRows,
                m \in {<<>>, <<"", "Days Worked">>, <<"Period", "Days">>} :
                header = ("Weekly Summary" :> w) @@ ("Monthly Summary" :> m)
          /\ sheet = <<>>
       \/ /\ pc = "month_header"
          /\ \E j \in SheetHeaderRows :
                header = ("Weekly Summary" :> SUMMARY_HEADERS)
                         @@ ("Monthly Summary" :> SUMMARY_HEADERS) @@ ("Jan" :> j)
          /\ sheet = (1 :> EmptySheet)
    /\ summary = [k \in {"weekly", "monthly"} |-> EmptySummary]
    /\ start_search = 0
    /\ end_search = 0
    /\ InitLocals

NextHeader ==
    \/ SetupWeeklyHeader
    \/ SetupMonthlyHeader
    \/ SetupMonthSheet

SpecHeader == InitHeader /\ [][NextHeader]_vars

(***************************************************************************)
(* The summary scenarios: the Aggregate Writer (lines 191-209) on every    *)
(* set of weekly and monthly buckets over a few periods, on summary sheets *)
(* that are empty or hold what the writer left for the buckets of an       *)
(* earlier run.                                                            *)
(***************************************************************************)
\* the Mondays (day numbers) that key the weekly buckets of the scenarios
WeekKeys == {start_of_week(2018, 7 * k * SecondsPerDay) : k \in 0..(MaxBuckets - 1)}

\* the dictionaries with keys among keys and totals among amounts
BucketsOver(keys, amounts) == UNION {[K -> amounts] : K \in SUBSET keys}

\* the rows the writer leaves on an empty summary sheet for the buckets
LeftByRun(buckets, labels) == SummaryWritten(EmptySummary, buckets, labels)

InitSummary ==
    /\ year \in {2018}
    /\ today = [year |-> 2018, month |-> 2]
    /\ client = 0
    /\ source = {}
    /\ header = ("Weekly Summary" :> SUMMARY_HEADERS) @@ ("Monthly Summary" :> SUMMARY_HEADERS)
                @@ ("Jan" :> SHEET_HEADERS) @@ ("Feb" :> SHEET_HEADERS)
    /\ sheet = (1 :> EmptySheet) @@ (2 :> EmptySheet)
    /\ summary_weeks \in BucketsOver(WeekKeys, {1800, 5400})
    /\ summary_months \in BucketsOver({1, 2}, {1800, 360000})
    /\ \E w \in BucketsOver(WeekKeys, {3600}), m \in {<<>>, [k \in {1, 2} |-> 3600]} :
          summary = [k \in {"weekly", "monthly"} |->
                        IF k = "weekly"
                        THEN LeftByRun(w, [d \in DOMAIN w |-> WeekLabel(2018, d)])
                        ELSE LeftByRun(m, [d \in DOMAIN m |-> MonthLabel(2018, d)])]
    /\ pc = "summary"
    /\ run = 2
    /\ month = 1
    /\ start_search = StartDate(2018, 1)
    /\ end_search = EndDate(2018, 1)
    /\ month_entries = <<>>
    /\ toggl_id_map = <<>>
    /\ append_row = 2
    /\ full_range = EmptyRange
    /\ update_cells = <<>>
    /\ added = 0
    /\ updated = 0
    /\ unchanged = 0
    /\ entry_ix = 1
    /\ failure = ""
    /\ header_cells = {}
    /\ queries = <<>>
    /\ staged = <<>>
    /\ sent = <<>>
    /\ processed = <<>>
    /\ report = <<>>
    /\ edited = FALSE

NextSummary == WriteSummaries

SpecSummary == InitSummary /\ [][NextSummary]_vars

TypeOK ==
    /\ pc \in {"start", "monthly_header", "month_header", "fetch", "load", "sync",
               "summary", "done", "failed"}
    /\ append_row \in 2..(RowCount + 1)
    /\ month \in 1..12

(***************************************************************************)
(* Properties of get_entries, under SpecFetch.                              *)
(***************************************************************************)
\* the records of the source that start inside the period window
PeriodWindow ==
    {r \in source : StartDate(year, month) <= r.start + TzOffset
                    /\ r.start + TzOffset <= EndDate(year, month)}

Occurrences(seq, x) == Cardinality({k \in 1..Len(seq) : seq[k] = x})

\* C4: without a filter, once the fetch of a period window holding more
\* records than the page ceiling has finished, every record of the window
\* was yielded exactly once.
C4_EveryRecordOnce ==
    (pc = "load" /\ client = 0 /\ Cardinality(PeriodWindow) > PageCap)
        => \A r \in PeriodWindow : Occurrences(month_entries, r) = 1

\* C5: a step of the fetch issues one query; a further query follows if and
\* only if the page just returned holds at least the ceiling of records;
\* after a shorter page no query is issued; and the fetch of a window of N
\* records is over after at most N div ceiling + 1 queries.
C5_FetchTerminates ==
    [][/\ pc = "fetch" =>
             /\ Len(queries') = Len(queries) + 1
             /\ pc' \in {"fetch", "load"}
             /\ (pc' = "fetch") <=>
                   (Len(TimeEntryList(source, start_search, end_search)) >= PageCap)
             /\ Len(queries') <= (Cardinality(PeriodWindow) \div PageCap) + 1
       /\ pc # "fetch" => queries' = queries]_vars

\* the fetch ended with a short page that followed a full one
C5_Witness ==
    /\ pc = "load"
    /\ Len(queries) = 2
    /\ Cardinality(source) = PageCap + 1
    /\ Len(month_entries) = PageCap + 1

\* the project ids that belong to the association c
Association(c) == {p.id : p \in {q \in Projects : q.cid = c}}

IsPrefix(short, long) ==
    Len(short) <= Len(long) /\ \A k \in 1..Len(short) : short[k] = long[k]

\* C13: on the same source and window, get_entries with an association
\* filter issues the page queries of get_entries without one and yields the
\* records the unfiltered run yields whose project belongs to the
\* association, in the same order; the fetch in progress follows those
\* queries.
C13_FilterIndependence ==
    LET from == StartDate(year, month)
        to == EndDate(year, month)
        without == get_entries(source, from, to, 0)
    IN  /\ \A c \in {1, 2} :
              LET with == get_entries(source, from, to, c)
              IN  /\ with.queries = without.queries
                  /\ with.yielded
                        = SelectSeq(without.yielded, LAMBDA e : e.pid \in Association(c))
        /\ IsPrefix(queries, without.queries)
        /\ pc = "load" =>
              /\ queries = without.queries
              /\ month_entries = get_entries(source, from, to, client).yielded

\* a filtered fetch took two pages although the filter left fewer records
\* of the first page than the ceiling
C13_Witness ==
    /\ pc = "load"
    /\ client = 1
    /\ Len(queries) = 2
    /\ Len(month_entries) = 1
    /\ Len(Yielded(TimeEntryList(source, StartDate(year, month), EndDate(year, month)), 1)) < PageCap

\* C19: within one fetch, on sources whose records start inside the
\* window and do not stop before they start, every further query starts
\* one second after the latest end of the page before it, which is later
\* than the start of the query before it, and the end of the window stays
\* the end of the period.
C19_WindowMonotone ==
    /\ end_search = EndDate(year, month)
    /\ \A k \in 1..Len(queries) : queries[k][2] = EndDate(year, month)
    /\ \A k \in 1..(Len(queries) - 1) :
          LET page == TimeEntryList(source, queries[k][1], queries[k][2])
          IN  /\ queries[k + 1][1] > queries[k][1]
              /\ \A n \in 1..Len(page) : queries[k + 1][1] > page[n].stop + TzOffset
              /\ \E n \in 1..Len(page) : queries[k + 1][1] = page[n].stop + TzOffset + 1
    /\ pc = "fetch" => (Len(queries) = 0 \/ start_search > queries[Len(queries)][1])

\* a second query started later than one second after the first, after
\* a page whose records stop after the start of the window
C19_Witness ==
    /\ Len(queries) = 2
    /\ queries[2][1] > queries[1][1] + 1
    /\ queries[2][2] = queries[1][2]
    /\ \E r \in source : r.duration = 0

(***************************************************************************)
(* Properties of setup_header, under SpecHeader.                           *)
(***************************************************************************)
\* what a call of setup_header on worksheet name has to do
HeaderContract(name, headers) ==
    LET old == IF name \in DOMAIN header THEN header[name] ELSE <<>>
        valid == \A n \in 1..Len(headers) :
                    (n <= Len(old) /\ old[n] # "") => old[n] = headers[n]
    IN  /\ (pc' # "failed") <=> valid
        /\ pc' # "failed" =>
              /\ \A n \in 1..Len(headers) : header'[name][n] = headers[n]
              /\ \A n \in 1..Len(old) : old[n] # "" => header'[name][n] = old[n]
              /\ \A n \in header_cells' : n > Len(old) \/ old[n] = ""

\* C7: setup_header succeeds if and only if every non-empty cell of the
\* expected positions holds the expected name; on success the positions hold
\* the expected names, only empty cells were written and no non-empty cell
\* changed.
C7_HeaderSetup ==
    [][/\ pc = "start" => HeaderContract("Weekly Summary", SUMMARY_HEADERS)
       /\ pc = "monthly_header" => HeaderContract("Monthly Summary", SUMMARY_HEADERS)
       /\ pc = "month_header" => HeaderContract(MonthNames[month], SHEET_HEADERS)]_vars

\* the month sheet's header was set up: some cells were filled in, the
\* others held their names already
C7_Witness ==
    /\ pc = "fetch"
    /\ header["Jan"] = SHEET_HEADERS
    /\ header_cells # {}
    /\ header_cells # 1..NumCols

\* C20: a call of setup_header that raises on a mismatching header cell
\* has written no cell: row 1 of the sheet is as it was, the empty cells
\* before the mismatch included, and no other sheet changed.
C20_MismatchWritesNothing ==
    [][(pc \in {"start", "monthly_header", "month_header"} /\ pc' = "failed") =>
          LET name == CASE pc = "start" -> "Weekly Summary"
                        [] pc = "monthly_header" -> "Monthly Summary"
                        [] OTHER -> MonthNames[month]
              headers == IF pc = "month_header" THEN SHEET_HEADERS ELSE SUMMARY_HEADERS
          IN  /\ name \in DOMAIN header
              /\ \E n \in 1..Len(header[name]) :
                    n <= Len(headers) /\ header[name][n] # "" /\ header[name][n] # headers[n]
              /\ header'[name] = header[name]
              /\ header' = header
              /\ header_cells' = {}
              /\ UNCHANGED <<summary>>
              /\ \A m \in DOMAIN sheet : sheet'[m] = sheet[m]]_vars

\* setup_header raised on the month sheet whose row 1 has an empty cell
\* before the mismatching one; the empty cell is still empty
C20_Witness ==
    /\ pc = "failed"
    /\ failure = "ValueError: header"
    /\ "Jan" \in DOMAIN header
    /\ Len(header["Jan"]) >= 2
    /\ header["Jan"][1] = ""
    /\ header["Jan"][2] = "X"

(***************************************************************************)
(* Properties of sync_sheets, under Spec.                                  *)
(***************************************************************************)
\* C1: a second run on an unchanged record source stages no cell and counts
\* every record as unchanged.
C1_SecondRunIdle ==
    \A m \in 1..12 :
        (run = 2 /\ ~edited /\ <<2, m>> \in DOMAIN report) =>
            /\ report[<<2, m>>].staged = 0
            /\ report[<<2, m>>].added = 0
            /\ report[<<2, m>>].updated = 0
            /\ report[<<2, m>>].unchanged = report[<<2, m>>].records

IdText(rows, r) == rows[r][ColOf("toggl_id")]

\* C2: in every month sheet no two rows hold the same non-empty id, and
\* during reconciliation the index maps each id to the one row that holds it.
C2_UniqueIds ==
    /\ \A m \in DOMAIN sheet : \A r1, r2 \in 2..RowCount :
          (r1 # r2 /\ IdText(sheet[m], r1) # <<>>) => IdText(sheet[m], r1) # IdText(sheet[m], r2)
    /\ pc = "sync" =>
          \A id \in DOMAIN toggl_id_map :
              {r \in 2..RowCount : IdText(sheet[month], r) = IntToStr(id)}
                  = {toggl_id_map[id].row}

\* a second pass is reconciling against three id rows, rows of the first
\* pass among them
C2_Witness ==
    /\ run = 2
    /\ pc = "sync"
    /\ entry_ix > 1
    /\ Cardinality(DOMAIN toggl_id_map) = 3
    /\ <<1, month>> \in DOMAIN report
    /\ report[<<1, month>>].added >= 2

\* C3: the append cursor is at least 2, does not decrease within a period,
\* advances by one exactly on an insert, and an insert goes to a row below
\* every row of the index and every id row of the sheet.
C3_AppendMonotone ==
    [][/\ append_row >= 2
       /\ append_row' >= 2
       /\ pc # "month_header" => append_row' >= append_row
       /\ pc = "sync" => /\ added' - added \in {0, 1}
                         /\ append_row' - append_row = added' - added
       /\ added' = added + 1 =>
             /\ \A id \in DOMAIN toggl_id_map : toggl_id_map[id].row < append_row
             /\ \A r \in 2..RowCount : IdText(sheet[month], r) # <<>> => r < append_row
             /\ staged' = staged \o [n \in 1..NumCols |-> <<append_row, n>>]]_vars

\* a record was inserted below the rows of a non-empty index
C3_Witness ==
    /\ pc = "sync"
    /\ added >= 1
    /\ DOMAIN toggl_id_map # {}
    /\ append_row >= 5

\* C6: a record whose stop - start differs from its reported duration ends
\* the run with the validation error; no cell is staged or sent for it, the
\* counters and the sheet stay as they were, and nothing is written afterwards.
C6_DurationChecked ==
    [][/\ (/\ pc = "sync"
           /\ entry_ix <= Len(month_entries)
           /\ month_entries[entry_ix].stop - month_entries[entry_ix].start
                 # month_entries[entry_ix].duration)
          => /\ pc' = "failed"
             /\ failure' = "ValueError: duration"
             /\ UNCHANGED <<sheet, full_range, update_cells, staged, sent,
                            added, updated, unchanged, append_row>>
       /\ pc = "failed" => UNCHANGED <<pc, sheet, summary, header>>]_vars

\* the run ended on a duration mismatch while cells of earlier records
\* were staged
C6_Witness ==
    /\ pc = "failed"
    /\ failure = "ValueError: duration"
    /\ update_cells # <<>>
    /\ entry_ix > 1

\* C8: after a first run appended A and B to an empty January sheet, a run
\* in which A stops half an hour later updates A's End and Duration cells
\* only and counts B as unchanged.
C8_TwoRunScenario ==
    (/\ run = 2
     /\ pc \in {"summary", "done"}
     /\ client = 0
     /\ source = {Lengthened(RecA), RecB}
     /\ report[<<1, 1>>].added = 2)
    => /\ report[<<2, 1>>].added = 0
       /\ report[<<2, 1>>].updated = 1
       /\ report[<<2, 1>>].unchanged = 1
       /\ staged = <<<<2, ColOf("End")>>, <<2, ColOf("Duration")>>>>

\* the cell references of the batches sent, in the order sent
RECURSIVE SentRefs(_)
SentRefs(batches) ==
    IF batches = <<>> THEN <<>>
    ELSE [k \in 1..Len(Head(batches)) |-> <<Head(batches)[k].row, Head(batches)[k].col>>]
         \o SentRefs(Tail(batches))

\* C9: during a period the staged cells are those sent followed by those
\* waiting, each once; when the period is over every staged cell was sent,
\* in exactly one batch, and the sheet holds what was sent.
C9_FlushOnCompletion ==
    /\ pc = "sync" => SentRefs(sent) \o update_cells = staged
    /\ pc \in {"start", "monthly_header", "month_header", "summary", "done"} =>
          SentRefs(sent) = staged
    /\ pc \in {"summary", "done"} =>
          \A b \in 1..Len(sent) : \A k \in 1..Len(sent[b]) :
              sheet[month][sent[b][k].row][sent[b][k].col] = CellText(sent[b][k].value)

\* a period ended with one batch sent at the threshold and the rest after
\* the loop
C9_Witness ==
    /\ pc = "summary"
    /\ Len(sent) = 2
    /\ Len(sent[1]) > FlushThreshold
    /\ Len(sent[2]) <= FlushThreshold

\* the sum of the durations of the processed records at the positions S
RECURSIVE DurationOf(_)
DurationOf(S) ==
    IF S = {} THEN 0
    ELSE LET k == CHOOSE x \in S : TRUE
         IN  processed[k][2].duration + DurationOf(S \ {k})

RECURSIVE Total(_, _)
Total(buckets, keys) ==
    IF keys = {} THEN 0
    ELSE LET k == CHOOSE x \in keys : TRUE
         IN  buckets[k] + Total(buckets, keys \ {k})

\* the local day on which a processed record starts
LocalDay(k) == (processed[k][2].start + TzOffset) \div SecondsPerDay

\* C10: when all periods are done, every weekly bucket is keyed by a Monday
\* and holds the durations of the processed records that start in the seven
\* days from it, every monthly bucket holds the durations of the records
\* processed in that period, and the totals of both equal the total of all
\* processed records.
C10_Aggregates ==
    pc \in {"summary", "done"} =>
        LET all == 1..Len(processed)
        IN  /\ \A w \in DOMAIN summary_weeks :
                  /\ (YearOrdinal(year) + w) % 7 = 1
                  /\ summary_weeks[w] = DurationOf({k \in all : LocalDay(k) \in w..(w + 6)})
            /\ \A k \in all : \E w \in DOMAIN summary_weeks : LocalDay(k) \in w..(w + 6)
            /\ \A m \in DOMAIN summary_months :
                  summary_months[m] = DurationOf({k \in all : processed[k][1] = m})
            /\ \A k \in all : processed[k][1] \in DOMAIN summary_months
            /\ Total(summary_weeks, DOMAIN summary_weeks) = DurationOf(all)
            /\ Total(summary_months, DOMAIN summary_months) = DurationOf(all)

\* records of 3600 and 1800 seconds in one week gave one bucket of 5400
C10_Witness ==
    /\ pc = "done"
    /\ DOMAIN summary_weeks = {0}
    /\ summary_weeks[0] = 5400
    /\ {processed[k][2].duration : k \in 1..Len(processed)} = {3600, 1800}
    /\ summary["weekly"][2][3] = <<"1", ":", "3", "0">>

(***************************************************************************)
(* Properties of the Aggregate Writer, under SpecSummary.                  *)
(***************************************************************************)
\* the data rows of a summary sheet that carry a period label, top down
LabelledRows(rows) ==
    SelectSeq([k \in 1..(SummaryRowCount - 1) |-> rows[k + 1]], LAMBDA row : row[1] # <<>>)

\* one row per bucket in ascending order of the keys: label and total
ExpectedRows(buckets, labels) ==
    LET keys == SortedKeys(DOMAIN buckets)
    IN  [n \in 1..Len(keys) |->
            [label |-> labels[keys[n]],
             total |-> IntToStr(buckets[keys[n]] \div 3600) \o <<":">>
                       \o Pad2((buckets[keys[n]] \div 60) % 60)]]

SummaryLayout(rows, buckets, labels) ==
    LET have == LabelledRows(rows)
        want == ExpectedRows(buckets, labels)
    IN  /\ Len(have) = Len(want)
        /\ \A n \in 1..Len(want) : /\ have[n][1] = want[n].label
                                   /\ have[n][3] = want[n].total

\* C11: after the aggregate flush the labelled data rows of each summary
\* sheet are one row per bucket of this run, ascending by period key, each
\* with the bucket's total, whatever the sheet held before.
C11_SummaryLayout ==
    pc = "done" =>
        /\ SummaryLayout(summary["weekly"], summary_weeks,
                         [d \in DOMAIN summary_weeks |-> DateText(year, d)])
        /\ SummaryLayout(summary["monthly"], summary_months,
                         [m \in DOMAIN summary_months |-> MonthLabel(year, m)])

(***************************************************************************)
(* Properties of a run that ends in an error, under Spec.                  *)
(***************************************************************************)
\* C12: the step on which a validation error, a header mismatch or a
\* rejected batch ends the run changes no cell and sends no batch, the
\* batches sent before it are in the month sheet as they were sent, and
\* after it nothing is written to any sheet and no batch is sent.
C12_AbortNoRollback ==
    [][/\ failure # "" =>
             UNCHANGED <<sheet, summary, header, header_cells, sent>>
       /\ (failure = "" /\ failure' # "") =>
             /\ \A m \in DOMAIN sheet : sheet'[m] = sheet[m]
             /\ UNCHANGED <<summary, header, sent>>
             /\ pc \in {"start", "monthly_header", "month_header"} => header_cells' = {}
             /\ pc = "sync" =>
                   \A b \in 1..Len(sent) : \A k \in 1..Len(sent[b]) :
                       sheet'[month][sent[b][k].row][sent[b][k].col]
                           = CellText(sent[b][k].value)]_vars

\* a batch was rejected after an earlier batch of the period had been sent
C12_Witness ==
    /\ pc = "failed"
    /\ failure = "APIError"
    /\ Len(sent) = 1
    /\ update_cells # <<>>
    /\ \E r \in 2..RowCount : sheet[month][r] # EmptyRow

(***************************************************************************)
(* Properties of the Row Mapper, under Spec.                               *)
(***************************************************************************)
\* HH:MM of a local point in time, hour and minute on two digits
ClockText(t) ==
    Pad2((t % SecondsPerDay) \div 3600) \o <<":">> \o Pad2(((t % SecondsPerDay) \div 60) % 60)

\* C14: in the canonical row of every processed record with a consistent
\* duration, Start and End are the five characters HH:MM of the local start
\* and stop with a zero-padded hour, and Duration is H:MM with
\* H = (d div 60) div 60 and MM = (d div 60) mod 60 on two digits.
C14_TimeRendering ==
    \A k \in 1..Len(processed) :
        LET e == processed[k][2]
            row == entry_to_sheet_row(year, e)
            d == e.duration
        IN  e.stop - e.start = d =>
               /\ row["Start"].s = ClockText(e.start + TzOffset)
               /\ Len(row["Start"].s) = 5
               /\ row["End"].s = ClockText(e.stop + TzOffset)
               /\ Len(row["End"].s) = 5
               /\ row["Duration"].s
                     = IntToStr((d \div 60) \div 60) \o <<":">> \o Pad2((d \div 60) % 60)

(***************************************************************************)
(* Properties of the update and insert branches, under Spec.               *)
(***************************************************************************)
\* the columns of row r of the month sheet whose comparable value differs
\* from the canonical row of record e
DifferingCols(r, e) ==
    {n \in 1..NumCols :
        Comparable(SHEET_HEADERS[n], PyStr(sheet[month][r][n]))
            # entry_to_sheet_row(year, e)[SHEET_HEADERS[n]]}

\* C15: processing a record whose id is in the index stages exactly the
\* cells of the id's row that differ from the canonical row, counts the
\* record as updated if there is such a cell and as unchanged if not, and
\* leaves the append cursor, the index and the added counter alone.
C15_FieldLevelUpdate ==
    [][(/\ pc = "sync"
        /\ entry_ix <= Len(month_entries)
        /\ month_entries[entry_ix].id \in DOMAIN toggl_id_map
        /\ month_entries[entry_ix].stop - month_entries[entry_ix].start
              = month_entries[entry_ix].duration)
       => LET e == month_entries[entry_ix]
              r == toggl_id_map[e.id].row
              want == DifferingCols(r, e)
          IN  /\ IntToStr(e.id) = sheet[month][r][ColOf("toggl_id")]
              /\ Len(staged') = Len(staged) + Cardinality(want)
              /\ {staged'[k] : k \in (Len(staged) + 1)..Len(staged')}
                    = {<<r, n>> : n \in want}
              /\ SubSeq(staged', 1, Len(staged)) = staged
              /\ updated' = updated + (IF want # {} THEN 1 ELSE 0)
              /\ unchanged' = unchanged + (IF want = {} THEN 1 ELSE 0)
              /\ UNCHANGED <<added, append_row, toggl_id_map>>]_vars

\* one record of the index was found unchanged and of another one exactly
\* the End and Duration cells were staged
C15_Witness ==
    /\ pc = "sync"
    /\ updated = 1
    /\ unchanged = 1
    /\ added = 0
    /\ \E r \in 2..RowCount : staged = <<<<r, ColOf("End")>>, <<r, ColOf("Duration")>>>>

\* the rows of a month sheet with a non-empty cell
PopulatedRows(rows) == {r \in 2..RowCount : rows[r] # EmptyRow}

\* C16: the index load leaves the append cursor one past the highest
\* populated row of the sheet (2 on a sheet without data), and every insert
\* goes to a row all of whose cells are empty.
C16_AppendBelowContent ==
    [][/\ (pc = "load" /\ pc' = "sync") =>
             append_row' = IF PopulatedRows(sheet[month]) = {} THEN 2
                           ELSE Max(PopulatedRows(sheet[month])) + 1
       /\ (pc = "sync" /\ added' = added + 1) =>
             sheet[month][append_row] = EmptyRow]_vars

\* C17: between the processing steps of the records no more cells than the
\* threshold are staged, and every batch sent to the month sheet holds at
\* most the threshold plus the cells of one row.
C17_BoundedBatches ==
    /\ pc = "sync" => Len(update_cells) <= FlushThreshold
    /\ \A b \in 1..Len(sent) : Len(sent[b]) <= FlushThreshold + NumCols

\* a batch above the threshold was sent inside the loop and the staged
\* cells were cleared
C17_Witness ==
    /\ pc = "sync"
    /\ entry_ix <= Len(month_entries)
    /\ update_cells = <<>>
    /\ Len(sent) = 1
    /\ Len(sent[1]) > FlushThreshold

(***************************************************************************)
(* Properties of the sequence of periods, under Spec.                      *)
(***************************************************************************)
\* the months a run has to process
MonthsOfRun == IF today.year = year THEN 1..today.month ELSE 1..12

\* the months whose period the current run has completed
MonthsDone(rep) == {m \in 1..12 : <<run, m>> \in DOMAIN rep}

\* C18: a run starts and completes the period of each month of the target
\* year (up to the current month in the current year, all twelve otherwise)
\* exactly once, one period at a time; the fetch of a period issues no query
\* once its reconciliation has started and no cell is staged before the
\* fetch is over; the summaries are written in one step, which follows the
\* completion of all periods and ends the run.
C18_PeriodSequencing ==
    [][/\ (pc = "month_header" /\ pc' = "fetch") =>
             /\ month \in MonthsOfRun
             /\ month \notin MonthsDone(report)
       /\ (pc = "sync" /\ pc' \in {"month_header", "summary"}) =>
             /\ month \notin MonthsDone(report)
             /\ MonthsDone(report') = MonthsDone(report) \cup {month}
             /\ (pc' = "summary") <=> (MonthsDone(report') = MonthsOfRun)
             /\ pc' = "month_header" =>
                   (month' \in MonthsOfRun /\ month' \notin MonthsDone(report'))
       /\ pc \in {"load", "sync"} => UNCHANGED <<queries, month_entries, start_search>>
       /\ pc = "fetch" => UNCHANGED <<staged, sent, processed, sheet, entry_ix>>
       /\ pc' = "sync" => pc \in {"load", "sync"}
       /\ pc' = "load" => pc = "fetch"
       /\ pc' = "summary" => pc = "sync"
       /\ pc = "summary" => (pc' = "done" /\ MonthsDone(report) = MonthsOfRun)
       /\ summary' # summary => pc = "summary"]_vars

\* a run for a past year completed its twelve periods, processed a record
\* and wrote the summaries
C18_Witness ==
    /\ pc = "done"
    /\ today.year # year
    /\ MonthsDone(report) = 1..12
    /\ processed # <<>>
    /\ summary["monthly"][2][1] # <<>>

====
